---- MODULE Spec2Model ----
(***************************************************************************)
(* Model of preprocessing/automate_kenny.py: the survey normalisation      *)
(* function preprocess_survey_data and the command-line entry point that   *)
(* loads a table, normalises it and writes the result.                     *)
(*                                                                         *)
(* A table is a function from column names to columns; a column is a       *)
(* sequence of cells.  A cell is missing (NaN), a number or a text.        *)
(* Numbers are exact rationals held as a count of quarters, so that the    *)
(* halves of the inputs (0.5, 2.5) and the mean of two of them (a median   *)
(* of an even count) are represented without rounding.  Non-finite floats  *)
(* and numbers beyond the 64-bit integers are outside the model.           *)
(*                                                                         *)
(* The statements of preprocess_survey_data are taken one action each, in  *)
(* program order; a statement that raises passes control to the handlers   *)
(* of the entry point.  The rename of the columns (line 17) is taken as    *)
(* done: the columns carry their canonical names.  pandas is read as in    *)
(* its 1.x and 2.x releases, where fillna(inplace=True) on df[col] updates *)
(* the frame.                                                              *)
(***************************************************************************)
EXTENDS Integers, Sequences, FiniteSets, TLC

VARIABLES pc, src, raw, df, origin, result, exc, dirs, dest, out

vars == <<pc, src, raw, df, origin, result, exc, dirs, dest, out>>

\* Largest number of rows of an input table.
MaxRows == 2

----------------------------------------------------------------------------
(* Cells *)

NaN == [k |-> "nan", n |-> 0, s |-> ""]
Num(q) == [k |-> "num", n |-> q, s |-> ""]
Whole(i) == Num(4 * i)
Half(h) == Num(2 * h)
Str(t) == [k |-> "str", n |-> 0, s |-> t]

IsNull(v) == v.k = "nan"
IsNum(v) == v.k = "num"
IsStr(v) == v.k = "str"
IsInteger(v) == IsNum(v) /\ v.n % 4 = 0

Range(col) == {col[i] : i \in 1..Len(col)}
MapCol(F(_), col) == [i \in 1..Len(col) |-> F(col[i])]

\* Python orders str by code point: digits, then upper case, then lower case.
\* The texts of the model in that order.
TextOrder ==
  << "12000", "2", "4 years college or more", "42", "Elementary", "Poor",
     "abc", "elementary", "excellent", "poor", "yes" >>
TextRank(t) == CHOOSE i \in 1..Len(TextOrder) : TextOrder[i] = t

\* str.lower() on the texts of the model (the code never calls it).
Lower(t) ==
  IF t = "Poor" THEN "poor" ELSE IF t = "Elementary" THEN "elementary" ELSE t

\* float(text) as pd.to_numeric parses it: the numeric texts of the model,
\* in quarters.
ParseTable == ("2" :> 8) @@ ("42" :> 168) @@ ("12000" :> 48000)

----------------------------------------------------------------------------
(* Schema *)

binary_cols ==
  << "Diabetes_binary", "HighBP", "HighChol", "CholCheck", "Smoker",
     "Stroke", "HeartDiseaseorAttack", "PhysActivity", "Fruits",
     "Veggies", "HvyAlcoholConsump", "AnyHealthcare", "NoDocbcCost",
     "DiffWalk", "Sex" >>
BinarySet == Range(binary_cols)
MedianCols == {"BMI", "MentHlth", "PhysHlth"}
CodedCols == {"GenHlth", "Age", "Education", "Income"}
ModeCols == BinarySet \cup CodedCols

\* df.columns: the columns of the survey table, in the order of the data
\* set's file; the order decides only which of two raising columns raises.
Columns ==
  << "Diabetes_binary", "HighBP", "HighChol", "CholCheck", "BMI", "Smoker",
     "Stroke", "HeartDiseaseorAttack", "PhysActivity", "Fruits", "Veggies",
     "HvyAlcoholConsump", "AnyHealthcare", "NoDocbcCost", "GenHlth",
     "MentHlth", "PhysHlth", "DiffWalk", "Sex", "Age", "Education",
     "Income" >>
Cols == Range(Columns)

NRows(t) == Len(t["BMI"])
Row(t, i) == [c \in Cols |-> t[c][i]]

----------------------------------------------------------------------------
(* pandas primitives *)

\* pd.to_numeric(..., errors='coerce') on one cell.
ToNumeric(v) ==
  IF IsStr(v)
    THEN IF v.s \in DOMAIN ParseTable THEN Num(ParseTable[v.s]) ELSE NaN
    ELSE v

\* The column's dtype is object exactly when it holds a text.
IsNumericDtype(col) == \A i \in 1..Len(col) : ~IsStr(col[i])

AllNull(col) == \A i \in 1..Len(col) : IsNull(col[i])
AnyNull(col) == \E i \in 1..Len(col) : IsNull(col[i])

FillNa(col, v) == [i \in 1..Len(col) |-> IF IsNull(col[i]) THEN v ELSE col[i]]

\* Series.between(lo, hi, inclusive='both').all() on a numeric column.
AllBetween(col, lo, hi) ==
  \A i \in 1..Len(col) : IsNum(col[i]) /\ 4 * lo <= col[i].n /\ col[i].n <= 4 * hi

\* Series.clip(lo, hi) on one cell.
Clip(v, lo, hi) ==
  IF ~IsNum(v) THEN v
  ELSE IF v.n < 4 * lo THEN Whole(lo)
  ELSE IF v.n > 4 * hi THEN Whole(hi)
  ELSE v

\* astype(int) on one finite number: truncation toward zero.
AsInt(v) ==
  IF v.n >= 0 THEN Num((v.n \div 4) * 4) ELSE Num(0 - (((0 - v.n) \div 4) * 4))

\* The k-th smallest number of a column (1-based), missing cells skipped.
KthSmallest(col, k) ==
  LET idx == {i \in 1..Len(col) : IsNum(col[i])}
  IN  CHOOSE x \in {col[i].n : i \in idx} :
        /\ Cardinality({i \in idx : col[i].n < x}) < k
        /\ Cardinality({i \in idx : col[i].n <= x}) >= k

\* Series.median(): the middle number, or the mean of the two middle ones;
\* NaN when the column holds no number.
Median(col) ==
  LET cnt == Cardinality({i \in 1..Len(col) : IsNum(col[i])})
  IN  IF cnt = 0 THEN NaN
      ELSE IF cnt % 2 = 1 THEN Num(KthSmallest(col, (cnt + 1) \div 2))
      ELSE Num((KthSmallest(col, cnt \div 2) + KthSmallest(col, cnt \div 2 + 1)) \div 2)

\* Series.median() raises TypeError on an object column that holds a text.
MedianRaises(col) == ~IsNumericDtype(col)

\* Series.mode(): the most frequent non-missing values, sorted when they
\* can be compared with one another and in order of first appearance
\* otherwise.  ModeHead is mode()[0]; it raises when mode() is empty.
ModeEmpty(col) == AllNull(col)
ModeHead(col) ==
  LET idx == {i \in 1..Len(col) : ~IsNull(col[i])}
      count(i) == Cardinality({j \in idx : col[j] = col[i]})
      top == {i \in idx : \A j \in idx : count(j) <= count(i)}
      first == CHOOSE i \in top : \A j \in top : i <= j
  IN  IF \A i \in top : IsNum(col[i])
        THEN col[CHOOSE i \in top : \A j \in top : col[i].n <= col[j].n]
      ELSE IF \A i \in top : IsStr(col[i])
        THEN col[CHOOSE i \in top :
                   \A j \in top : TextRank(col[i].s) <= TextRank(col[j].s)]
      ELSE col[first]

\* The outcome of a step: the table it leaves, or the exception it raises.
Ok(t) == [ok |-> TRUE, df |-> t, exc |-> "none"]
Raise(e) == [ok |-> FALSE, df |-> <<>>, exc |-> e]

----------------------------------------------------------------------------
(* Step 1: missing values (lines 21-28) *)

ImputeRaises(c, col) ==
  \/ c \in MedianCols /\ MedianRaises(col)
  \/ c \in ModeCols /\ ModeEmpty(col)

ImputeExc(c) == IF c \in MedianCols THEN "TypeError" ELSE "KeyError"

ImputeCol(c, col) ==
  IF c \in MedianCols THEN FillNa(col, Median(col))
  ELSE IF c \in ModeCols THEN FillNa(col, ModeHead(col))
  ELSE col

\* The first column, in the frame's order, whose imputation raises.
FirstRaising(t) ==
  CHOOSE i \in 1..Len(Columns) :
    /\ ImputeRaises(Columns[i], t[Columns[i]])
    /\ \A j \in 1..(i - 1) : ~ImputeRaises(Columns[j], t[Columns[j]])

handle_missing(t) ==
  IF \E c \in Cols : ImputeRaises(c, t[c])
    THEN Raise(ImputeExc(Columns[FirstRaising(t)]))
    ELSE Ok([c \in Cols |-> ImputeCol(c, t[c])])

----------------------------------------------------------------------------
(* Step 2: duplicates (lines 32-35) *)

\* The rows drop_duplicates keeps: those equal to no earlier row.
KeptRows(t) ==
  {i \in 1..NRows(t) : \A j \in 1..(i - 1) : Row(t, j) # Row(t, i)}

\* The kept rows in their order: the index of the frame before reset_index.
KeptIndex(t) ==
  [n \in 1..Cardinality(KeptRows(t)) |->
     CHOOSE i \in KeptRows(t) : Cardinality({j \in KeptRows(t) : j < i}) = n - 1]

TakeRows(t, index) ==
  [c \in Cols |-> [n \in 1..Len(index) |-> t[c][index[n]]]]

drop_duplicates(t) == TakeRows(t, KeptIndex(t))

----------------------------------------------------------------------------
(* Step 4: binary columns (lines 55-63) *)

\* BinaryInt without its astype(int): the cell stays a float.
BinaryFloat(v) == IF IsNull(ToNumeric(v)) THEN Whole(0) ELSE ToNumeric(v)

\* pd.to_numeric(errors='coerce').fillna(0).astype(int) on one cell.
BinaryInt(v) == AsInt(IF IsNull(ToNumeric(v)) THEN Whole(0) ELSE ToNumeric(v))

\* BinaryCell without its apply(lambda ...): the integer stays as it is.
BinaryCellAsIs(v) == BinaryInt(v)

\* ... then apply(lambda x: 1 if x > 0 else 0).
BinaryCell(v) == IF BinaryInt(v).n > 0 THEN Whole(1) ELSE Whole(0)

coerce_binary(t) ==
  [c \in Cols |-> IF c \in BinarySet THEN MapCol(BinaryCell, t[c]) ELSE t[c]]

----------------------------------------------------------------------------
(* GenHlth and Education (lines 67-97) *)

\* The text keys of the mappings; their integer keys k -> k are 1..hi.
genhlth_mapping ==
  ("excellent" :> 1) @@ ("very good" :> 2) @@ ("good" :> 3) @@
  ("fair" :> 4) @@ ("poor" :> 5)

education_mapping ==
  ("never attended school or only kindergarten" :> 1) @@ ("elementary" :> 2) @@
  ("middle school" :> 3) @@ ("high school" :> 4) @@
  ("less than 4 years college" :> 5) @@ ("4 years college or more" :> 6)

\* MapCell with the text lower-cased before the lookup.
MapCellAnyCase(v, mapping, hi) ==
  IF IsNum(v) THEN (IF IsInteger(v) /\ 4 <= v.n /\ v.n <= 4 * hi THEN v ELSE NaN)
  ELSE IF IsStr(v) /\ Lower(v.s) \in DOMAIN mapping THEN Whole(mapping[Lower(v.s)])
  ELSE NaN

\* Series.map(mapping) on one cell: a key's value, NaN for any other cell.
MapCell(v, mapping, hi) ==
  IF IsNum(v) THEN (IF IsInteger(v) /\ 4 <= v.n /\ v.n <= 4 * hi THEN v ELSE NaN)
  ELSE IF IsStr(v) /\ v.s \in DOMAIN mapping THEN Whole(mapping[v.s])
  ELSE NaN

MapColumn(col, mapping, hi) == [i \in 1..Len(col) |-> MapCell(col[i], mapping, hi)]

\* The column is numeric and wholly inside the scale: the remap is skipped.
InScale(col, hi) == IsNumericDtype(col) /\ AllBetween(col, 1, hi)

ClipColumn(col, lo, hi) == [i \in 1..Len(col) |-> Clip(col[i], lo, hi)]

\* to_numeric(mapped).fillna(mapped.mode()[0]).astype(int), then clip.
Remapped(mapped, hi) ==
  IF ModeEmpty(mapped) THEN Raise("KeyError")
  ELSE Ok(ClipColumn(MapCol(AsInt, FillNa(mapped, ModeHead(mapped))), 1, hi))

encode_scale(col, mapping, hi) ==
  IF ~InScale(col, hi) THEN Remapped(MapColumn(col, mapping, hi), hi)
  ELSE Ok(ClipColumn(col, 1, hi))

----------------------------------------------------------------------------
(* Age and Income (lines 103-127) *)

\* The finite bin edges; the last bin runs to float('inf').
age_bins == << 18, 25, 30, 35, 40, 45, 50, 55, 60, 65, 70, 75, 80 >>
age_labels == << 1, 2, 3, 4, 5, 6, 7, 8, 9, 10, 11, 12, 13 >>
income_bins == << 0, 10000, 15000, 20000, 25000, 35000, 50000, 75000 >>
income_labels == << 1, 2, 3, 4, 5, 6, 7, 8 >>

\* SearchSorted with side='left', the bins of right=True.
SearchSortedLeft(v, bins) == Cardinality({e \in 1..Len(bins) : 4 * bins[e] < v.n})

\* bins.searchsorted(x, side='right') of pd.cut(right=False): the number of
\* edges at or below the value.
SearchSorted(v, bins) == Cardinality({e \in 1..Len(bins) : 4 * bins[e] <= v.n})

\* pd.cut(right=False) on one cell: a value below every edge is in no bin.
Cut(v, bins, labels) ==
  IF IsNull(v) \/ SearchSorted(v, bins) = 0 THEN NaN
  ELSE Whole(labels[SearchSorted(v, bins)])

\* The value that fills the cells to_numeric could not coerce: the median,
\* or labels[len(labels)//2 - 1] when no cell is a number.
BinFill(x, labels) ==
  IF ~AllNull(x) THEN Median(x) ELSE Whole(labels[(Len(labels) \div 2 - 1) + 1])

CutColumn(y, bins, labels) == [i \in 1..Len(y) |-> Cut(y[i], bins, labels)]

bin_column(col, bins, labels) ==
  IF ~InScale(col, Len(labels))
    THEN CutColumn(FillNa(MapCol(ToNumeric, col), BinFill(MapCol(ToNumeric, col), labels)),
                   bins, labels)
    ELSE col

----------------------------------------------------------------------------
(* MentHlth and PhysHlth (lines 130-136) *)

\* pd.to_numeric(col, errors='coerce').fillna(col.median())
DayFilled(col) == FillNa(MapCol(ToNumeric, col), Median(col))

\* clip(0, 30).astype(int) on one cell.
DayCell(v) == AsInt(Clip(v, 0, 30))

day_count(col) ==
  IF MedianRaises(col) THEN Raise("TypeError")
  ELSE IF AnyNull(DayFilled(col)) THEN Raise("ValueError")
  ELSE Ok(MapCol(DayCell, DayFilled(col)))

----------------------------------------------------------------------------
(* Step 5: final pass (lines 141-148) *)

FinalRaises(c, col) ==
  /\ AnyNull(MapCol(ToNumeric, col))
  /\ c \in ModeCols
  /\ ModeEmpty(MapCol(ToNumeric, col))

FinalFill(c, x) ==
  IF ~AnyNull(x) THEN x
  ELSE IF c \in ModeCols THEN FillNa(x, ModeHead(x))
  ELSE FillNa(x, Median(x))

FinalCol(c, col) == FinalFill(c, MapCol(ToNumeric, col))

ensure_types(t) ==
  IF \E c \in Cols : FinalRaises(c, t[c]) THEN Raise("KeyError")
  ELSE Ok([c \in Cols |-> FinalCol(c, t[c])])

----------------------------------------------------------------------------
(* Input tables *)

\* The cells a column of an input table may hold: missing, numbers inside
\* and outside the column's scale, whole and fractional, and texts that
\* parse as numbers, that are labels, and that are neither.
Cells(c) ==
  IF c \in BinarySet
    THEN {NaN, Whole(0), Whole(1), Whole(2), Half(1), Whole(0 - 1), Str("yes"), Str("2")}
  ELSE IF c = "GenHlth"
    THEN {NaN, Whole(1), Whole(3), Half(5), Whole(7), Str("poor"), Str("Poor"),
          Str("excellent")}
  ELSE IF c = "Education"
    THEN {NaN, Whole(1), Whole(6), Half(5), Whole(7), Str("elementary"),
          Str("Elementary"), Str("4 years college or more")}
  ELSE IF c = "Age"
    THEN {NaN, Whole(5), Half(5), Whole(15), Whole(25), Whole(42), Whole(81),
          Str("42"), Str("abc")}
  ELSE IF c = "Income"
    THEN {NaN, Whole(3), Whole(0 - 5), Whole(0), Whole(12000), Whole(80000),
          Str("12000"), Str("abc")}
  ELSE IF c = "BMI"
    THEN {NaN, Whole(22), Half(55), Whole(30), Str("abc")}
  ELSE {NaN, Whole(0), Half(5), Whole(30), Whole(45), Whole(0 - 3), Str("abc")}

\* A valid value of each column, held by the columns a table does not vary.
CleanCell(c) ==
  IF c \in BinarySet THEN Whole(0)
  ELSE IF c = "GenHlth" THEN Whole(3)
  ELSE IF c = "Education" THEN Whole(4)
  ELSE IF c = "Age" THEN Whole(9)
  ELSE IF c = "Income" THEN Whole(6)
  ELSE IF c = "BMI" THEN Whole(27)
  ELSE Whole(0)

\* The BMI columns of n rows: every respondent the same, or each their own,
\* which tells apart rows that agree in the varied column.
BmiColumns(n) == { [i \in 1..n |-> Whole(27)], [i \in 1..n |-> Whole(27 + i)] }

\* The table of n rows in which column c holds cells, BMI holds bmi, and
\* every other column holds its valid value.
TableOf(c, n, cells, bmi) ==
  [d \in Cols |->
     IF d = c THEN cells
     ELSE IF d = "BMI" THEN bmi
     ELSE [i \in 1..n |-> CleanCell(d)]]

NoTable == [c \in Cols |-> << >>]

----------------------------------------------------------------------------
(* Entry point (lines 153-187) and the run of preprocess_survey_data *)

IsFileNotFound(e) == e = "FileNotFoundError"

\* IsException for a second handler that reads `except OSError`.
IsOSError(e) == e \in {"FileNotFoundError", "OSError"}

IsException(e) ==
  e \in {"FileNotFoundError", "ParserError", "KeyError", "TypeError",
         "ValueError", "OSError"}

Init ==
  /\ pc = "read_csv"
  /\ src \in {"absent", "malformed", "present"}
  /\ \/ /\ src = "present"
        /\ \E c \in Cols, n \in 0..MaxRows :
             \E cells \in [1..n -> Cells(c)], bmi \in BmiColumns(n) :
               raw = TableOf(c, n, cells, bmi)
     \/ /\ src # "present"
        /\ raw = NoTable
  /\ df = NoTable
  /\ origin = << >>
  /\ result = "none"
  /\ exc = "none"
  /\ dirs = "unchanged"
  /\ dest = "untouched"
  /\ out = << >>

\* The statement at pc leaves table t and control goes to next.
Advance(t, next) ==
  /\ df' = t
  /\ pc' = next
  /\ UNCHANGED <<src, raw, origin, result, exc, dirs, dest, out>>

\* The statement at pc raises e inside preprocess_survey_data.
Raised(e) ==
  /\ exc' = e
  /\ result' = "raised"
  /\ pc' = "except"
  /\ UNCHANGED <<src, raw, df, origin, dirs, dest, out>>

Finish(r, next) == IF r.ok THEN Advance(r.df, next) ELSE Raised(r.exc)

FinishCol(c, r, next) ==
  IF r.ok THEN Advance([df EXCEPT ![c] = r.df], next) ELSE Raised(r.exc)

\* raw_df = pd.read_csv(raw_data_path)
ReadCsv ==
  /\ pc = "read_csv"
  /\ IF src = "present"
       THEN /\ df' = raw
            /\ out' = Append(out, "Successfully loaded raw data")
            /\ pc' = "impute"
            /\ exc' = exc
       ELSE /\ exc' = (IF src = "absent" THEN "FileNotFoundError" ELSE "ParserError")
            /\ pc' = "except"
            /\ UNCHANGED <<df, out>>
  /\ UNCHANGED <<src, raw, origin, result, dirs, dest>>

HandleMissing ==
  /\ pc = "impute"
  /\ Finish(handle_missing(df), "dedup")

DropDuplicates ==
  /\ pc = "dedup"
  /\ df' = drop_duplicates(df)
  /\ origin' = KeptIndex(df)
  /\ pc' = "binary"
  /\ UNCHANGED <<src, raw, result, exc, dirs, dest, out>>

CoerceBinary ==
  /\ pc = "binary"
  /\ Advance(coerce_binary(df), "genhlth")

EncodeGenHlth ==
  /\ pc = "genhlth"
  /\ FinishCol("GenHlth", encode_scale(df["GenHlth"], genhlth_mapping, 5), "education")

EncodeEducation ==
  /\ pc = "education"
  /\ FinishCol("Education", encode_scale(df["Education"], education_mapping, 6), "age")

BinAge ==
  /\ pc = "age"
  /\ Advance([df EXCEPT !["Age"] = bin_column(@, age_bins, age_labels)], "income")

BinIncome ==
  /\ pc = "income"
  /\ Advance([df EXCEPT !["Income"] = bin_column(@, income_bins, income_labels)],
             "menthlth")

ClipMentHlth ==
  /\ pc = "menthlth"
  /\ FinishCol("MentHlth", day_count(df["MentHlth"]), "physhlth")

ClipPhysHlth ==
  /\ pc = "physhlth"
  /\ FinishCol("PhysHlth", day_count(df["PhysHlth"]), "types")

\* The final pass and the return to the caller.
EnsureTypes ==
  /\ pc = "types"
  /\ IF ensure_types(df).ok
       THEN /\ df' = ensure_types(df).df
            /\ result' = "returned"
            /\ out' = Append(out, "Data preprocessing complete.")
            /\ pc' = "makedirs"
            /\ UNCHANGED <<src, raw, origin, exc, dirs, dest>>
       ELSE Raised(ensure_types(df).exc)

\* os.makedirs(os.path.dirname(processed_data_path), exist_ok=True)
MakeDirs ==
  /\ pc = "makedirs"
  /\ \/ /\ dirs' = "ensured"
        /\ pc' = "to_csv"
        /\ exc' = exc
     \/ /\ exc' = "OSError"
        /\ pc' = "except"
        /\ dirs' = dirs
  /\ UNCHANGED <<src, raw, df, origin, result, dest, out>>

\* processed_df.to_csv(processed_data_path, index=False): the file is opened
\* for writing and filled; a failure leaves it as it was (the open failed)
\* or truncated and partly filled (a later write failed).
ToCsv ==
  /\ pc = "to_csv"
  /\ \/ /\ dest' = "written"
        /\ out' = Append(out, "Processed data saved")
        /\ pc' = "done"
        /\ exc' = exc
     \/ /\ exc' = "OSError"
        /\ dest' \in {"untouched", "partial"}
        /\ pc' = "except"
        /\ out' = out
  /\ UNCHANGED <<src, raw, df, origin, result, dirs>>

\* except FileNotFoundError
ExceptFileNotFound ==
  /\ pc = "except"
  /\ IsFileNotFound(exc)
  /\ out' = Append(out, "Error: Raw data file not found")
  /\ pc' = "done"
  /\ UNCHANGED <<src, raw, df, origin, result, exc, dirs, dest>>

\* except Exception as e
ExceptException ==
  /\ pc = "except"
  /\ ~IsFileNotFound(exc)
  /\ IsException(exc)
  /\ out' = Append(out, "An error occurred during preprocessing")
  /\ pc' = "done"
  /\ UNCHANGED <<src, raw, df, origin, result, exc, dirs, dest>>

Next ==
  \/ ReadCsv
  \/ HandleMissing
  \/ DropDuplicates
  \/ CoerceBinary
  \/ EncodeGenHlth
  \/ EncodeEducation
  \/ BinAge
  \/ BinIncome
  \/ ClipMentHlth
  \/ ClipPhysHlth
  \/ EnsureTypes
  \/ MakeDirs
  \/ ToCsv
  \/ ExceptFileNotFound
  \/ ExceptException

Spec == Init /\ [][Next]_vars

----------------------------------------------------------------------------
(* Properties *)

Returned == result = "returned"

\* The raw cell of column c behind row i of the returned table.
RawCell(c, i) == raw[c][origin[i]]

\* Column c as the encoding steps found it: imputed, duplicates dropped.
Imputed(c) == [n \in 1..Len(origin) |-> ImputeCol(c, raw[c])[origin[n]]]

Bit == {Whole(0), Whole(1)}
InRange(v, lo, hi) == IsInteger(v) /\ 4 * lo <= v.n /\ v.n <= 4 * hi

\* C1: preprocess_survey_data never raises, whatever the input table holds.
C1_NeverRaises == result # "raised"

\* C2: the returned table holds no two rows equal in every column.
C2_NoDuplicateRows ==
  Returned =>
    \A i, j \in 1..NRows(df) : i # j => Row(df, i) # Row(df, j)

\* C3: no cell of the returned table is missing.
C3_NoMissing ==
  Returned => \A c \in Cols : \A i \in 1..NRows(df) : ~IsNull(df[c][i])

\* C4: in the returned table GenHlth is an integer in [1,5], Education in
\* [1,6], Age in [1,13], Income in [1,8], MentHlth and PhysHlth in [0,30].
C4_RangeClosure ==
  Returned =>
    \A i \in 1..NRows(df) :
      /\ InRange(df["GenHlth"][i], 1, 5)
      /\ InRange(df["Education"][i], 1, 6)
      /\ InRange(df["Age"][i], 1, 13)
      /\ InRange(df["Income"][i], 1, 8)
      /\ InRange(df["MentHlth"][i], 0, 30)
      /\ InRange(df["PhysHlth"][i], 0, 30)

\* C5: every cell of every binary column of the returned table is 0 or 1.
C5_BinaryClosure ==
  Returned =>
    \A c \in BinarySet : \A i \in 1..NRows(df) : df[c][i] \in Bit

\* A returned table whose binary cell was a text or a number other than
\* 0 and 1 in the input.
C5_Witness ==
  /\ Returned
  /\ \E c \in BinarySet : \E i \in 1..NRows(df) :
       /\ RawCell(c, i) \in {Str("yes"), Whole(2), Whole(0 - 1)}
       /\ df[c][i] \in Bit

\* The output invariants, on an input table.
Clean(t) ==
  /\ \A c \in Cols : \A i \in 1..NRows(t) : IsNum(t[c][i])
  /\ \A c \in BinarySet : \A i \in 1..NRows(t) : t[c][i] \in Bit
  /\ \A i \in 1..NRows(t) :
       /\ InRange(t["GenHlth"][i], 1, 5)
       /\ InRange(t["Education"][i], 1, 6)
       /\ InRange(t["Age"][i], 1, 13)
       /\ InRange(t["Income"][i], 1, 8)
       /\ InRange(t["MentHlth"][i], 0, 30)
       /\ InRange(t["PhysHlth"][i], 0, 30)
  /\ \A i, j \in 1..NRows(t) : i # j => Row(t, i) # Row(t, j)

\* C6: on a table that satisfies the output invariants the function returns,
\* and returns the same rows in the same order; the second application is
\* then the first one over again.
C6_IdempotentOnClean ==
  (src = "present" /\ Clean(raw)) =>
    /\ result # "raised"
    /\ Returned => df = raw

\* The part of C6 that the code keeps: a clean table of at least one row
\* comes back unchanged.
IdempotentOnCleanRows ==
  (src = "present" /\ Clean(raw) /\ NRows(raw) > 0) =>
    /\ result # "raised"
    /\ Returned => df = raw

\* The label of the left-closed, right-open bin that holds v, the last bin
\* unbounded above.
BinOf(v, bins) ==
  CHOOSE k \in 1..Len(bins) :
    /\ 4 * bins[k] <= v.n
    /\ k = Len(bins) \/ v.n < 4 * bins[k + 1]

Binned(c, bins, hi) ==
  \A i \in 1..NRows(df) :
    (/\ ~InScale(Imputed(c), hi)
     /\ IsNum(RawCell(c, i))
     /\ RawCell(c, i).n >= 4 * bins[1])
    => df[c][i] = Whole(BinOf(RawCell(c, i), bins))

Example(c, from, to) ==
  \A i \in 1..NRows(df) : RawCell(c, i) = Whole(from) => df[c][i] = Whole(to)

\* C7: when the Age (Income) column is not wholly numeric inside [1,13]
\* ([1,8]) at the binning step, every raw number at or above the lowest edge
\* comes out as the label of the bin [edge, next edge) that holds it:
\* Age 42 -> 5, 81 -> 13, 25 -> 2; Income 12000 -> 2, 80000 -> 8.
C7_Binning ==
  Returned =>
    /\ Binned("Age", age_bins, 13)
    /\ Binned("Income", income_bins, 8)
    /\ Example("Age", 42, 5) /\ Example("Age", 81, 13) /\ Example("Age", 25, 2)
    /\ Example("Income", 12000, 2) /\ Example("Income", 80000, 8)

\* A returned table with a raw Age on a bin edge and a raw Income in the
\* last bin.
C7_Witness ==
  /\ Returned
  /\ \/ \E i \in 1..NRows(df) :
          RawCell("Age", i) = Whole(25) /\ df["Age"][i] = Whole(2)
     \/ \E i \in 1..NRows(df) :
          RawCell("Income", i) = Whole(80000) /\ df["Income"][i] = Whole(8)
  /\ \E i \in 1..NRows(df) : \E c \in {"Age", "Income"} : RawCell(c, i) # CleanCell(c)

\* The codes of the labels, as the specification lists them.
LabelCode(c) ==
  IF c = "GenHlth"
    THEN ("excellent" :> 1) @@ ("very good" :> 2) @@ ("good" :> 3) @@
         ("fair" :> 4) @@ ("poor" :> 5)
    ELSE ("never attended school or only kindergarten" :> 1) @@
         ("elementary" :> 2) @@ ("middle school" :> 3) @@ ("high school" :> 4) @@
         ("less than 4 years college" :> 5) @@ ("4 years college or more" :> 6)

ScaleTop(c) == IF c = "GenHlth" THEN 5 ELSE 6

\* C8 as stated: in a column that arrives as texts, a text equal to a label
\* without regard to case comes out as the label's code.
C8_CaseInsensitive ==
  Returned =>
    \A c \in {"GenHlth", "Education"} : \A i \in 1..NRows(df) :
      (/\ \A n \in 1..NRows(raw) : IsStr(raw[c][n])
       /\ Lower(RawCell(c, i).s) \in DOMAIN LabelCode(c))
      => df[c][i] = Whole(LabelCode(c)[Lower(RawCell(c, i).s)])

\* What a cell maps to when labels are matched exactly.
ExactCode(c, v) ==
  IF IsStr(v)
    THEN IF v.s \in DOMAIN LabelCode(c) THEN Whole(LabelCode(c)[v.s]) ELSE NaN
    ELSE IF InRange(v, 1, ScaleTop(c)) THEN v ELSE NaN

\* The column as it is mapped when labels are matched exactly.
ExactColumn(c) == [n \in 1..Len(origin) |-> ExactCode(c, Imputed(c)[n])]

\* C8 amended: a text equal to a label exactly, in lower case, comes out as
\* the label's code; any other text, a label in another case included, is
\* replaced by the mode of the mapped column, which then is not empty.
C8_ExactLabels ==
  Returned =>
    \A c \in {"GenHlth", "Education"} : \A i \in 1..NRows(df) :
      IsStr(RawCell(c, i)) =>
        IF RawCell(c, i).s \in DOMAIN LabelCode(c)
          THEN df[c][i] = Whole(LabelCode(c)[RawCell(c, i).s])
          ELSE /\ ~ModeEmpty(ExactColumn(c))
               /\ df[c][i] = ModeHead(ExactColumn(c))

\* A returned table in which 'poor' became 5 and 'Poor' became the mode, 1.
C8_Witness ==
  /\ Returned
  /\ \E i, j \in 1..NRows(df) :
       /\ RawCell("GenHlth", i) = Str("Poor") /\ df["GenHlth"][i] = Whole(1)
       /\ RawCell("GenHlth", j) = Str("excellent") /\ df["GenHlth"][j] = Whole(1)

\* The order of the entry point's steps: nothing runs before the load, the
\* directory is made only after the function returned, the file is written
\* only after the directory was made.
StepsInOrder ==
  /\ result # "none" => (src = "present" /\ Len(out) > 0)
  /\ dirs = "ensured" => Returned
  /\ dest # "untouched" => dirs = "ensured"

\* Every failure reaches one of the two handlers, which prints its message
\* and ends the run.
FailuresCaught ==
  /\ pc = "except" => (exc # "none" /\ ENABLED (ExceptFileNotFound \/ ExceptException))
  /\ (pc = "done" /\ exc # "none") =>
       out[Len(out)] \in {"Error: Raw data file not found",
                          "An error occurred during preprocessing"}
  /\ (pc = "done" /\ exc = "none") => dest = "written"

\* A failed load or a failed normalisation leaves directory and file alone.
NothingAfterFailure ==
  (src # "present" \/ result = "raised") => (dirs = "unchanged" /\ dest = "untouched")

\* C9 as stated: steps in order, failures caught, the destination fully
\* written or untouched, nothing done after a failed load or normalisation.
C9_AllOrNothing ==
  /\ StepsInOrder
  /\ FailuresCaught
  /\ NothingAfterFailure
  /\ dest \in {"written", "untouched"}

\* C9 amended: steps in order, failures caught, nothing done after a failed
\* load, normalisation or directory creation; only a failure of the write
\* itself can leave the destination partly written.
C9_EntryPoint ==
  /\ StepsInOrder
  /\ FailuresCaught
  /\ NothingAfterFailure
  /\ dest = "partial" => (Returned /\ dirs = "ensured" /\ exc = "OSError")

\* A run that ended after the function raised: message printed, nothing made.
C9_Witness ==
  /\ pc = "done"
  /\ result = "raised"
  /\ out[Len(out)] = "An error occurred during preprocessing"
  /\ dirs = "unchanged"
  /\ dest = "untouched"

====
